---- MODULE Spec2Model ----
(***************************************************************************)
(* Model of the Zillow scrape job: startScrapeJob / orchestrate /          *)
(* scrapeListingsBatch (backend/src/scraper/orchestrator.ts), goToNextPage *)
(* (backend/src/scraper/pageController.ts) and the session discipline of   *)
(* scrapeListingPage (listingWorker.ts).                                   *)
(*                                                                         *)
(* JavaScript runs one macrotask at a time: the code between two awaits    *)
(* of external calls (session acquire/release, page navigation, script     *)
(* evaluation) is one atomic step.  Each action below is the resumption of *)
(* one such await together with everything that runs synchronously (or in  *)
(* follow-up microtasks) until the next external call is pending.          *)
(* The cancellation signal is set by an external caller between steps.     *)
(*                                                                         *)
(* Specifications:                                                         *)
(*   Spec          one job, from the return of startScrapeJob on           *)
(*   SpecScenario  scrapeListingsBatch on 7 URLs, the counter at cap - 2   *)
(*   SpecRegistry  the job registry: startScrapeJob and getJob             *)
(*   SpecDiscovery extractListingUrls on a page snapshot                   *)
(*   SpecPageUrl   buildNextPageUrl as orchestrate uses it                 *)
(*   SpecWorker    one scrapeListingPage call, step by step                *)
(*   SpecTier1     extractFromNextData: the fact fields, source by source  *)
(*   SpecRange     extractFromNextData: the estimated sales range          *)
(*   SpecPaging    one job over the addresses buildNextPageUrl builds,     *)
(*                 every pending call returning in the end                 *)
(***************************************************************************)
EXTENDS Integers, Sequences, FiniteSets, TLC

\* ---------------------------------------------------------------- bounds
\* The source sets MAX_LISTINGS = 100 and BATCH_CONCURRENCY = 5
\* (orchestrator.ts:11-12); the job specification is checked with both
\* scaled down, the scheduler scenario with the source's concurrency.
MAX_LISTINGS == 3
BATCH_CONCURRENCY == 2
\* The site has MaxPages result pages; a page lists at most MaxPageLen items.
MaxPages == 2
MaxPageLen == 3
\* The scheduler scenario: concurrency limit of the source, 7 URLs.
ScenarioConcurrency == 5
ScenarioUrls == <<1, 2, 3, 4, 5, 6, 7>>

VARIABLES
  status,       \* job.status
  pc,           \* the await orchestrate is suspended at
  globalCount,  \* orchestrate: globalCount
  rows,         \* records handed to schema.addRow, in order
  scraped,      \* logger.scraped
  mainSession,  \* orchestrate: mainSession (0 = null)
  pageNum,      \* orchestrate: pageNum
  aborted,      \* abortController.signal.aborted
  stop,         \* the exit path orchestrate took ("" while in the loop)
  sess,         \* per session acquired, in order: "held", "released", "twice"
  batch,        \* the running (or last) scrapeListingsBatch call
  adv,          \* the running (or last) goToNextPage call
  jobs,         \* the registry: jobId -> job object (its index in objs)
  objs,         \* the job objects created by startScrapeJob, in order
  call          \* a call of one of the pure functions: input, progress, result

jobVars == <<status, pc, globalCount, rows, scraped, mainSession, pageNum,
             aborted, stop, sess, batch, adv>>

auxVars == <<jobs, objs, call>>

vars == <<status, pc, globalCount, rows, scraped, mainSession, pageNum,
          aborted, stop, sess, batch, adv, jobs, objs, call>>

Min(a, b) == IF a < b THEN a ELSE b

\* ------------------------------------------------------------ the site
\* What a discovery pass on results page p can return: the first n items of
\* the page.  Consecutive pages overlap by design of the site (a listing can
\* be shown again on the next page); pages past MaxPages are empty.
PageListing(p, n) == [j \in 1..n |-> p + j - 1]

PageSizes(p) == IF p <= MaxPages THEN 0..MaxPageLen ELSE {0}

\* ------------------------------------------------------------ sessions
NoSession == 0

\* createSteelSession resolved with a new session.
Acquire(ss) == Append(ss, "held")

\* releaseSteelSession(s) called (the provider's contract: never raises).
Release(ss, s) == [ss EXCEPT ![s] = IF @ = "held" THEN "released" ELSE "twice"]

\* ------------------------------------------------------- batch scheduler
\* A record's address is "addr" when the page gave one, "null" otherwise.
NoData == [link |-> 0, address |-> "null"]
NoResult == [url |-> 0, success |-> FALSE, data |-> NoData, error |-> ""]

\* data is what scrapeListingPage returned, until the callback consumed it.
IdleWorker ==
  [st |-> "idle", sid |-> NoSession, out |-> "", res |-> NoResult,
   invoked |-> FALSE, atCount |-> 0, atAborted |-> FALSE, data |-> NoData]

\* let completed = currentCount; const allResults = []   (lines 182-183)
NewBatch(urls, currentCount, maxCount) ==
  [urls |-> urls, i |-> 0, completed |-> currentCount, maxCount |-> maxCount,
   currentCount |-> currentCount, all |-> <<>>, w |-> [k \in 1..Len(urls) |-> IdleWorker], returned |-> FALSE]

IdleBatch == NewBatch(<<>>, 0, 0)

\* completed >= maxCount || abortController.signal.aborted   (187, 196, 204)
LimitReached_NoCap(completed, maxCount, ab) == ab

LimitReached_NoAbort(completed, maxCount, ab) == completed >= maxCount

LimitReached_Late(completed, maxCount, ab) == completed > maxCount \/ ab

LimitReached(completed, maxCount, ab) == completed >= maxCount \/ ab

\* urls.slice(i, i + BATCH_CONCURRENCY), as the (1-based) positions in urls
Chunk(b, conc) == (b.i + 1)..Min(b.i + conc, Len(b.urls))

\* The synchronous head of the map callback (195-203): the pre-dispatch
\* check, then scrapeListingPage(url) runs up to its createSteelSession().
StartWorker(b, k, ab) ==
  IF LimitReached(b.completed, b.maxCount, ab)
  THEN [IdleWorker EXCEPT !.st = "settled",
          !.res = [url |-> b.urls[k], success |-> FALSE, data |-> NoData,
                   error |-> "Skipped - limit reached"]]
  ELSE [IdleWorker EXCEPT !.st = "acquire", !.invoked = TRUE,
          !.atCount = b.completed, !.atAborted = ab]

\* chunk.map(async ...) : every callback of the chunk starts in turn (194)
Dispatch(b, conc, ab) ==
  [b EXCEPT !.w = [k \in DOMAIN b.w |->
                     IF k \in Chunk(b, conc) THEN StartWorker(b, k, ab)
                     ELSE b.w[k]]]

\* await Promise.allSettled(promises) resumes   (216)
ChunkSettled_Any(b, conc) == \E k \in Chunk(b, conc) : b.w[k].st = "settled"

ChunkSettled(b, conc) == \A k \in Chunk(b, conc) : b.w[k].st = "settled"

\* for (const s of settled) allResults.push(s.value)   (217-227)
PushSettled_Front(all, settled) == settled \o all

PushSettled(all, settled) == all \o settled

Collect(b, conc) ==
  LET n == Cardinality(Chunk(b, conc))
      settled == [j \in 1..n |-> b.w[b.i + j].res]
  IN [b EXCEPT !.all = PushSettled(b.all, settled), !.i = b.i + conc]

\* The chunk loop from its head (186-187) to the next suspension: either the
\* call returns allResults (230) or a chunk is in flight.
RECURSIVE RunLoop(_, _, _)
RunLoop(b, conc, ab) ==
  IF b.i >= Len(b.urls) \/ LimitReached(b.completed, b.maxCount, ab)
  THEN [b EXCEPT !.returned = TRUE]
  ELSE LET b1 == Dispatch(b, conc, ab)
       IN IF ChunkSettled(b1, conc) THEN RunLoop(Collect(b1, conc), conc, ab)
          ELSE b1

\* catch (err) of the map callback: the URL's unsuccessful result  (209-213)
FailureResult_Unknown(url, msg) ==
  [url |-> 0, success |-> FALSE, data |-> NoData, error |-> msg]

FailureResult(url, msg) ==
  [url |-> url, success |-> FALSE, data |-> NoData, error |-> msg]

\* The map callback after scrapeListingPage settled with `out`  (203-213):
\* the result of the URL and the new value of completed.
WorkerOutcome(url, out, data, completed, maxCount, ab) ==
  IF out # "ok"
  THEN [res |-> FailureResult(url, out), completed |-> completed]
  ELSE IF LimitReached(completed, maxCount, ab)
  THEN [res |-> [url |-> url, success |-> FALSE, data |-> NoData,
                 error |-> "Skipped - limit reached mid-scrape"],
        completed |-> completed]
  ELSE [res |-> [url |-> url, success |-> TRUE, data |-> data, error |-> ""],
        completed |-> completed + 1]

SettleWorker(b, k, out, ab) ==
  LET o == WorkerOutcome(b.urls[k], out, b.w[k].data, b.completed,
                         b.maxCount, ab)
  IN [b EXCEPT !.completed = o.completed,
               !.w[k] = [@ EXCEPT !.st = "settled", !.out = out, !.res = o.res,
                                  !.data = NoData]]

\* ------------------------------------------------------- listing worker
\* How a scrapeListingPage call can end: by a raise, or by returning a
\* record whose address is set ("addr") or null ("null").
ScrapeOutcomes == {"raise", "addr", "null"}

\* extracted.link = url (243), data.link = url (414)
Linked(a, url) == [link |-> url, address |-> a]

\* --------------------------------------------------------- orchestrator
\* for (const result of results) { addRow; globalCount++; break at cap }
\* (116-132): the accumulator and the counter after the first n results.
RECURSIVE Consume_NoIncrement(_, _, _, _)
Consume_NoIncrement(results, n, count, acc) ==
  IF n > Len(results) \/ (n > 1 /\ count >= MAX_LISTINGS)
  THEN [count |-> count, rows |-> acc]
  ELSE LET r == results[n]
       IN IF r.success /\ r.data # NoData
          THEN Consume_NoIncrement(results, n + 1, count, Append(acc, r.data))
          ELSE Consume_NoIncrement(results, n + 1, count, acc)

RECURSIVE Consume_CountAll(_, _, _, _)
Consume_CountAll(results, n, count, acc) ==
  IF n > Len(results) \/ (n > 1 /\ count >= MAX_LISTINGS)
  THEN [count |-> count, rows |-> acc]
  ELSE LET r == results[n]
       IN IF r.success /\ r.data # NoData
          THEN Consume_CountAll(results, n + 1, count + 1, Append(acc, r.data))
          ELSE Consume_CountAll(results, n + 1, count + 1, acc)

RECURSIVE Consume_FirstOnly(_, _, _, _)
Consume_FirstOnly(results, n, count, acc) ==
  IF n > Len(results) \/ n > 1
  THEN [count |-> count, rows |-> acc]
  ELSE LET r == results[n]
       IN IF r.success /\ r.data # NoData
          THEN Consume_FirstOnly(results, n + 1, count + 1, Append(acc, r.data))
          ELSE Consume_FirstOnly(results, n + 1, count, acc)

RECURSIVE Consume(_, _, _, _)
Consume(results, n, count, acc) ==
  IF n > Len(results) \/ (n > 1 /\ count >= MAX_LISTINGS)
  THEN [count |-> count, rows |-> acc]
  ELSE LET r == results[n]
       IN IF r.success /\ r.data # NoData
          THEN Consume(results, n + 1, count + 1, Append(acc, r.data))
          ELSE Consume(results, n + 1, count, acc)

\* mainSession = null after the release before pagination   (139)
AfterRelease_Keep(ms) == ms

AfterRelease(ms) == NoSession

\* orchestrate(job, searchUrl).catch(...)   (56-59): the handler runs only
\* when orchestrate rejects.
Settled_Always(st, rejected) == "error"

Settled(st, rejected) == IF rejected THEN "error" ELSE st

\* What orchestrate does with goToNextPage's answer   (146-147)
OnNoNext_Throw == "error"

OnNoNext == "completed"

\* Leaving the loop or the try block (151-160): set the status, then the
\* finally block calls release on the navigation session if one is held.
Finish(st, why, ss) ==
  /\ status' = st
  /\ stop' = why
  /\ mainSession' = mainSession
  /\ IF mainSession # NoSession
     THEN sess' = Release(ss, mainSession) /\ pc' = "finalRelease"
     ELSE sess' = ss /\ pc' = "done"

\* while (globalCount < MAX_LISTINGS) { if (aborted) break; extract... (84-89)
LoopHead ==
  IF globalCount >= MAX_LISTINGS THEN Finish("completed", "cap", sess)
  ELSE IF aborted THEN Finish("completed", "abort", sess)
  ELSE /\ pc' = "extract"
       /\ UNCHANGED <<status, stop, mainSession, sess>>

\* await releaseSteelSession(mainSession) before the page advance   (138)
ReleaseForPaging_Skip(ss, ms) == ss

ReleaseForPaging(ss, ms) == Release(ss, ms)

\* scrapeListingsBatch returned to orchestrate (116-138).
OrchReturn(b) ==
  LET c == Consume(b.all, 1, globalCount, rows)
  IN /\ batch' = b
     /\ globalCount' = c.count
     /\ rows' = c.rows
     /\ scraped' = IF c.count > globalCount THEN c.count ELSE scraped
     /\ IF c.count >= MAX_LISTINGS THEN Finish("completed", "cap", sess)
        ELSE /\ sess' = ReleaseForPaging(sess, mainSession)
             /\ pc' = "release"
             /\ UNCHANGED <<status, stop, mainSession>>

\* scrapeListingsBatch returned to a caller that only keeps the result.
HarnessReturn(b) ==
  /\ batch' = b
  /\ pc' = "returned"
  /\ UNCHANGED <<status, stop, mainSession, sess, globalCount, rows, scraped>>

\* A chunk is (still) in flight.
InFlight(b) ==
  /\ batch' = b
  /\ UNCHANGED <<status, pc, stop, mainSession, sess, globalCount, rows, scraped>>

\* After a worker settled: allSettled resumes once the whole chunk has, and
\* the call may return to its caller (orchestrate, or a bare caller).
AfterSettle(b, conc, caller) ==
  IF ChunkSettled(b, conc)
  THEN LET r == RunLoop(Collect(b, conc), conc, aborted)
       IN IF r.returned
          THEN IF caller = "orchestrate" THEN OrchReturn(r) ELSE HarnessReturn(r)
          ELSE InFlight(r)
  ELSE InFlight(b)

\* ------------------------------------------------------------ page advance
NoAdvance == [gotos |-> 0, reloads |-> 0, disc |-> <<>>, raised |-> FALSE,
              ret |-> "none"]

\* goToNextPage after a discovery found n references, `reloads` reloads
\* having been done in this call   (127-149)
NextPageDecision_NoRetry(n, reloads) == IF n > 0 THEN "true" ELSE "false"

NextPageDecision(n, reloads) ==
  IF n > 0 THEN "true" ELSE IF reloads = 0 THEN "retry" ELSE "false"

\* goToNextPage returned hasNext to orchestrate   (146-149, then 84-89)
\* pageNum++ (148).  The site has MaxPages pages with listings, so a job whose
\* addresses follow the page number never counts past MaxPages; the counter
\* is held at MaxPages + 1 for a job whose address does not change.
NextPageNum(p) == IF p <= MaxPages THEN p + 1 ELSE p

AdvanceReturns(a, hasNext) ==
  /\ adv' = [a EXCEPT !.ret = IF hasNext THEN "true" ELSE "false"]
  /\ IF hasNext
     THEN pageNum' = NextPageNum(pageNum) /\ LoopHead
     ELSE pageNum' = pageNum /\ Finish(OnNoNext, "noNext", sess)
  /\ UNCHANGED <<globalCount, rows, scraped, aborted, batch>>

\* goToNextPage is suspended at another page call.
AdvanceContinues(a, at) ==
  /\ adv' = a
  /\ pc' = at
  /\ UNCHANGED <<status, stop, mainSession, sess, pageNum, globalCount, rows,
                 scraped, aborted, batch>>

\* ----------------------------------------------------------------- Init
\* startScrapeJob has returned the job: it is registered with status
\* "running" and orchestrate is suspended at its first createSteelSession.
\* No job registered through the registry model, no pure-function call.
NoJobs == [i \in {} |-> 0]
NoCall == [fn |-> "none"]

AuxIdle ==
  /\ jobs = NoJobs
  /\ objs = <<>>
  /\ call = NoCall

Init ==
  /\ status = "running"
  /\ pc = "create"
  /\ globalCount = 0
  /\ rows = <<>>
  /\ scraped = 0
  /\ mainSession = NoSession
  /\ pageNum = 1
  /\ aborted = FALSE
  /\ stop = ""
  /\ sess = <<>>
  /\ batch = IdleBatch
  /\ adv = NoAdvance
  /\ AuxIdle

\* -------------------------------------------------------------- actions
\* mainSession = await createSteelSession(); page.goto(searchUrl)  (75-79)
CreateMain ==
  /\ pc = "create"
  /\ \E ok \in BOOLEAN :
       IF ok
       THEN /\ sess' = Acquire(sess)
            /\ mainSession' = Len(sess) + 1
            /\ pc' = "goto"
            /\ UNCHANGED <<status, stop>>
       ELSE Finish("error", "acquire", sess)
  /\ UNCHANGED <<globalCount, rows, scraped, pageNum, aborted, batch, adv>>

\* await page.goto(searchUrl); await wait(3000); the first loop test (79-89)
GotoFirst ==
  /\ pc = "goto"
  /\ \E ok \in BOOLEAN :
       IF ok THEN LoopHead ELSE Finish("error", "goto", sess)
  /\ UNCHANGED <<globalCount, rows, scraped, pageNum, aborted, batch, adv>>

\* await extractListingUrls(mainSession.page) resumes (89-114): stop on an
\* empty page, else slice to the remaining cap and call scrapeListingsBatch.
\* (The record of the goToNextPage call that led here is dropped.)
\* p is the page of the site that mainSession.page shows.
ExtractAt(p) ==
  /\ pc = "extract"
  /\ \E raised \in BOOLEAN, n \in PageSizes(p) :
       IF raised
       THEN /\ Finish("error", "extract", sess)
            /\ UNCHANGED <<globalCount, rows, scraped, batch>>
       ELSE IF n = 0
       THEN /\ Finish("completed", "noUrls", sess)
            /\ UNCHANGED <<globalCount, rows, scraped, batch>>
       ELSE LET listingUrls == PageListing(p, n)
                remaining == MAX_LISTINGS - globalCount
                toScrape == SubSeq(listingUrls, 1, Min(remaining, n))
                b == RunLoop(NewBatch(toScrape, globalCount, MAX_LISTINGS),
                             BATCH_CONCURRENCY, aborted)
            IN IF b.returned THEN OrchReturn(b)
               ELSE /\ batch' = b
                    /\ pc' = "batch"
                    /\ UNCHANGED <<status, stop, mainSession, sess,
                                   globalCount, rows, scraped>>
  /\ adv' = NoAdvance
  /\ UNCHANGED <<pageNum, aborted>>

\* The job of a search URL that buildNextPageUrl paginates: the address of
\* page pageNum shows page pageNum of the site.
Extract == ExtractAt(pageNum)

\* scrapeListingPage: session = await createSteelSession() resumes (221-225)
WorkerAcquire(k, oks, conc, caller) ==
  /\ pc = "batch"
  /\ batch.w[k].st = "acquire"
  /\ \E ok \in oks :
       IF ok
       THEN /\ batch' = [batch EXCEPT !.w[k] = [@ EXCEPT !.st = "scrape",
                                                  !.sid = Len(sess) + 1]]
            /\ sess' = Acquire(sess)
            /\ UNCHANGED <<status, pc, stop, mainSession, globalCount, rows,
                           scraped>>
       ELSE AfterSettle(SettleWorker(batch, k, "ProvisioningError", aborted),
                        conc, caller)
  /\ UNCHANGED <<pageNum, aborted, adv>>

\* scrapeListingPage from its navigation to its return or raise (225-415);
\* the finally block then calls release on the worker's session (416-418).
\* The page operations in between touch the worker's own page only, so the
\* call's path is one step here; its outcome is one of ScrapeOutcomes.
WorkerScrape(k, outs) ==
  /\ pc = "batch"
  /\ batch.w[k].st = "scrape"
  /\ \E o \in outs :
       batch' = [batch EXCEPT !.w[k] = [@ EXCEPT !.st = "release",
                   !.out = IF o = "raise" THEN "NavigationTimeout" ELSE "ok",
                   !.data = IF o = "raise" THEN NoData
                            ELSE Linked(o, batch.urls[k])]]
  /\ sess' = Release(sess, batch.w[k].sid)
  /\ UNCHANGED <<status, pc, stop, mainSession, globalCount, rows, scraped,
                 pageNum, aborted, adv>>

\* scrapeListingPage settles once its release resolved; the map callback
\* resumes (203-213), then allSettled once the chunk has settled (216-230)
WorkerReleased(k, conc, caller) ==
  /\ pc = "batch"
  /\ batch.w[k].st = "release"
  /\ AfterSettle(SettleWorker(batch, k, batch.w[k].out, aborted), conc, caller)
  /\ UNCHANGED <<pageNum, aborted, adv>>

\* await releaseSteelSession(mainSession) resumes; mainSession = null;
\* createSteelSession() for the next page is called   (138-144).  The
\* results of the page are consumed: the record of the batch call is dropped.
ReleaseDone ==
  /\ pc = "release"
  /\ mainSession' = AfterRelease(mainSession)
  /\ pc' = "create2"
  /\ batch' = IdleBatch
  /\ UNCHANGED <<status, stop, sess, globalCount, rows, scraped, pageNum,
                 aborted, adv>>

\* mainSession = await createSteelSession() resumes; goToNextPage starts
\* with page.goto(targetUrl)   (144-146, 120-122)
CreateNext ==
  /\ pc = "create2"
  /\ \E ok \in BOOLEAN :
       IF ok
       THEN /\ sess' = Acquire(sess)
            /\ mainSession' = Len(sess) + 1
            /\ pc' = "advGoto"
            /\ adv' = [NoAdvance EXCEPT !.gotos = 1, !.ret = "pending"]
            /\ UNCHANGED <<status, stop>>
       ELSE /\ Finish("error", "acquire", sess)
            /\ adv' = adv
  /\ UNCHANGED <<globalCount, rows, scraped, pageNum, aborted, batch>>

\* goToNextPage: await page.goto resumes; extractListingUrls starts (122-126)
AdvGoto ==
  /\ pc = "advGoto"
  /\ \E ok \in BOOLEAN :
       IF ok THEN AdvanceContinues(adv, "advExtract")
       ELSE AdvanceReturns([adv EXCEPT !.raised = TRUE], FALSE)

\* goToNextPage: await extractListingUrls resumes, first or after the
\* reload   (126-131, 142-149)
\* p is the page of the site that nextPageUrl shows.
AdvExtractAt(p) ==
  /\ pc = "advExtract"
  /\ \E raised \in BOOLEAN, n \in PageSizes(p) :
       IF raised THEN AdvanceReturns([adv EXCEPT !.raised = TRUE], FALSE)
       ELSE LET a == [adv EXCEPT !.disc = Append(@, n)]
                d == NextPageDecision(n, adv.reloads)
            IN IF d = "retry" THEN AdvanceContinues(a, "advTitle")
               ELSE AdvanceReturns(a, d = "true")

AdvExtract == AdvExtractAt(pageNum + 1)

\* goToNextPage: await page.title() resumes; page.reload is called (133-139)
AdvTitle ==
  /\ pc = "advTitle"
  /\ \E ok \in BOOLEAN :
       IF ok
       THEN AdvanceContinues([adv EXCEPT !.reloads = @ + 1], "advReload")
       ELSE AdvanceReturns([adv EXCEPT !.raised = TRUE], FALSE)

\* goToNextPage: await page.reload resumes; extractListingUrls starts (139-142)
AdvReload ==
  /\ pc = "advReload"
  /\ \E ok \in BOOLEAN :
       IF ok THEN AdvanceContinues(adv, "advExtract")
       ELSE AdvanceReturns([adv EXCEPT !.raised = TRUE], FALSE)

\* The release of the finally block resolved: orchestrate's promise
\* fulfils, the catch handler of startScrapeJob does not run   (159, 56-59)
FinalReleaseDone ==
  /\ pc = "finalRelease"
  /\ pc' = "done"
  /\ status' = Settled(status, FALSE)
  /\ UNCHANGED <<stop, mainSession, sess, globalCount, rows, scraped, pageNum,
                 aborted, batch, adv>>

\* An external caller sets the job's cancellation signal.
Abort ==
  /\ ~aborted
  /\ pc # "done"
  /\ aborted' = TRUE
  /\ UNCHANGED <<status, pc, stop, mainSession, sess, globalCount, rows,
                 scraped, pageNum, batch, adv>>

Next ==
  \/ /\ CreateMain
     /\ UNCHANGED auxVars
  \/ /\ GotoFirst
     /\ UNCHANGED auxVars
  \/ /\ Extract
     /\ UNCHANGED auxVars
  \/ /\ \E k \in DOMAIN batch.w :
          WorkerAcquire(k, BOOLEAN, BATCH_CONCURRENCY, "orchestrate")
     /\ UNCHANGED auxVars
  \/ /\ \E k \in DOMAIN batch.w : WorkerScrape(k, ScrapeOutcomes)
     /\ UNCHANGED auxVars
  \/ /\ \E k \in DOMAIN batch.w :
          WorkerReleased(k, BATCH_CONCURRENCY, "orchestrate")
     /\ UNCHANGED auxVars
  \/ /\ ReleaseDone
     /\ UNCHANGED auxVars
  \/ /\ CreateNext
     /\ UNCHANGED auxVars
  \/ /\ AdvGoto
     /\ UNCHANGED auxVars
  \/ /\ AdvExtract
     /\ UNCHANGED auxVars
  \/ /\ AdvTitle
     /\ UNCHANGED auxVars
  \/ /\ AdvReload
     /\ UNCHANGED auxVars
  \/ /\ FinalReleaseDone
     /\ UNCHANGED auxVars
  \/ /\ Abort
     /\ UNCHANGED auxVars

Spec == Init /\ [][Next]_vars

\* ------------------------------------------------- the scheduler scenario
\* scrapeListingsBatch called on 7 URLs with the source's concurrency limit,
\* the counter at cap - 2, no cancellation, every worker able to succeed.
ScenarioCaps == {2, 3}

InitScenario ==
  /\ status = "running"
  /\ pc = "batch"
  /\ globalCount = 0
  /\ rows = <<>>
  /\ scraped = 0
  /\ mainSession = NoSession
  /\ pageNum = 1
  /\ aborted = FALSE
  /\ stop = ""
  /\ sess = <<>>
  /\ adv = NoAdvance
  /\ AuxIdle
  /\ \E cap \in ScenarioCaps :
       batch = RunLoop(NewBatch(ScenarioUrls, cap - 2, cap),
                       ScenarioConcurrency, FALSE)

NextScenario ==
  \/ /\ \E k \in DOMAIN batch.w :
          WorkerAcquire(k, {TRUE}, ScenarioConcurrency, "harness")
     /\ UNCHANGED auxVars
  \/ /\ \E k \in DOMAIN batch.w : WorkerScrape(k, {"addr"})
     /\ UNCHANGED auxVars
  \/ /\ \E k \in DOMAIN batch.w :
          WorkerReleased(k, ScenarioConcurrency, "harness")
     /\ UNCHANGED auxVars

SpecScenario == InitScenario /\ [][NextScenario]_vars

\* ----------------------------------------------------------- the registry
\* The job variables in the specifications that run no orchestration.
JobIdle ==
  /\ status = "running"
  /\ pc = "none"
  /\ globalCount = 0
  /\ rows = <<>>
  /\ scraped = 0
  /\ mainSession = NoSession
  /\ pageNum = 1
  /\ aborted = FALSE
  /\ stop = ""
  /\ sess = <<>>
  /\ batch = IdleBatch
  /\ adv = NoAdvance

\* At most MaxJobs calls of startScrapeJob, with ids drawn from JobIds.
MaxJobs == 3
JobIds == {"a", "b"}
NotFound == 0

\* jobs.get(id)   (26-28)
GetJob(reg, id) == IF id \in DOMAIN reg THEN reg[id] ELSE NotFound

\* jobs.set(jobId, job)   (52)
Register_Nothing(reg, id, job) == reg

Register(reg, id, job) ==
  [i \in DOMAIN reg \cup {id} |-> IF i = id THEN job ELSE reg[i]]

\* const job = { id: jobId, status: "running", ... }   (46-51), with the
\* await its orchestrate call is suspended at: the first acquire (75).
NewJob(id) == [id |-> id, status |-> "running", at |-> "create"]

\* startScrapeJob up to its return (38-62): the job object is created and
\* registered, orchestrate runs up to its first await, the job is returned.
StartScrapeJob(id) ==
  /\ Len(objs) < MaxJobs
  /\ objs' = Append(objs, NewJob(id))
  /\ jobs' = Register(jobs, id, Len(objs) + 1)
  /\ UNCHANGED <<call, jobVars>>

\* orchestrate of job j gets past its first await: the acquire of the first
\* navigation session resolved (75), or it raised and the job ends in
\* error (155-157).
OrchestrateStarts(j) ==
  /\ objs[j].at = "create"
  /\ \E ok \in BOOLEAN :
       objs' = [objs EXCEPT ![j] =
                  IF ok THEN [@ EXCEPT !.at = "loop"]
                  ELSE [@ EXCEPT !.at = "done", !.status = "error"]]
  /\ UNCHANGED <<jobs, call, jobVars>>

\* orchestrate of job j sets the final status   (154, 156)
OrchestrateEnds(j) ==
  /\ objs[j].at = "loop"
  /\ \E st \in {"completed", "error"} :
       objs' = [objs EXCEPT ![j] = [@ EXCEPT !.at = "done", !.status = st]]
  /\ UNCHANGED <<jobs, call, jobVars>>

InitRegistry == JobIdle /\ AuxIdle

NextRegistry ==
  \/ \E id \in JobIds : StartScrapeJob(id)
  \/ \E j \in DOMAIN objs : OrchestrateStarts(j)
  \/ \E j \in DOMAIN objs : OrchestrateEnds(j)

SpecRegistry == InitRegistry /\ [][NextRegistry]_vars

\* ------------------------------------------------- reference discovery
\* A URL is its path, the number in front of "_zpid" in the path (0: the
\* path has none) and its query string (0: no "?").  The matches of the
\* patterns at lines 22 and 40 cannot contain "?"; an anchor's href can.
Paths == {"p", "q"}
Zpids == {0, 7}
Queries == {0, 1, 2}
MatchUrls == [path : Paths, zpid : Zpids, query : {0}]
AnchorUrls == [path : Paths, zpid : Zpids, query : Queries]

\* At most MaxMatches matches in each source of a page snapshot.
MaxMatches == 2

SeqsUpTo(S, n) == UNION {[1..m -> S] : m \in 0..n}

\* url.split("?")[0]   (68)
StripQuery(u) == [u EXCEPT !.query = 0]

\* url.match(/(\d+)_zpid/)?.[1]; key = zpid || url   (64-65): the zpid, or
\* the whole URL as it was found.
DedupKey(u) == IF u.zpid # 0 THEN [path |-> "", zpid |-> u.zpid, query |-> 0]
               ELSE u

\* The loop bodies at lines 23-30 and 41-48: a match is kept when it has a
\* zpid not seen yet.
RECURSIVE KeepByZpid(_, _, _, _)
KeepByZpid(ms, n, seen, urls) ==
  IF n > Len(ms) THEN [seen |-> seen, urls |-> urls]
  ELSE IF ms[n].zpid # 0 /\ ms[n].zpid \notin seen
  THEN KeepByZpid(ms, n + 1, seen \cup {ms[n].zpid}, Append(urls, ms[n]))
  ELSE KeepByZpid(ms, n + 1, seen, urls)

\* extractUrlsFromPageData (10-54): the matches of __NEXT_DATA__, and those
\* of the other script tags when the first strategy kept nothing.
ExtractUrlsFromPageData(nextData, scripts) ==
  LET s1 == KeepByZpid(nextData, 1, {}, <<>>)
  IN IF Len(s1.urls) = 0 THEN KeepByZpid(scripts, 1, s1.seen, s1.urls).urls
     ELSE s1.urls

\* addUrl (63-70)
AddUrl(c, u) ==
  IF DedupKey(u) \notin c.seen
  THEN [c EXCEPT !.seen = @ \cup {DedupKey(u)},
                 !.allUrls = Append(@, StripQuery(u))]
  ELSE c

\* urls.forEach(addUrl)   (75, 96)
RECURSIVE ForEachAddUrl(_, _, _)
ForEachAddUrl(c, urls, n) ==
  IF n > Len(urls) THEN c ELSE ForEachAddUrl(AddUrl(c, urls[n]), urls, n + 1)

\* extractListingUrls(page) is called on a page snapshot   (60-62)
InitDiscovery ==
  /\ JobIdle
  /\ jobs = NoJobs
  /\ objs = <<>>
  /\ \E nd \in SeqsUpTo(MatchUrls, MaxMatches),
        sc \in SeqsUpTo(MatchUrls, MaxMatches),
        dom \in SeqsUpTo(AnchorUrls, MaxMatches) :
       call = [fn |-> "extractListingUrls", at |-> "pageData",
               nextData |-> nd, scripts |-> sc, anchors |-> dom,
               jsonUrls |-> <<>>, seen |-> {}, allUrls |-> <<>>]

\* await extractUrlsFromPageData(page) resumes; jsonUrls.forEach(addUrl);
\* the scroll script is started   (73-85)
DiscoverPageData ==
  /\ call.fn = "extractListingUrls"
  /\ call.at = "pageData"
  /\ LET ju == ExtractUrlsFromPageData(call.nextData, call.scripts)
     IN call' = [ForEachAddUrl(call, ju, 1) EXCEPT !.at = "scroll",
                                                   !.jsonUrls = ju]
  /\ UNCHANGED <<jobs, objs, jobVars>>

\* The scroll script and the wait end; the anchors are read   (78-94)
DiscoverScrolled ==
  /\ call.fn = "extractListingUrls"
  /\ call.at = "scroll"
  /\ call' = [call EXCEPT !.at = "anchors"]
  /\ UNCHANGED <<jobs, objs, jobVars>>

\* The anchors' hrefs arrive; domUrls.forEach(addUrl); return allUrls (89-98)
DiscoverAnchors ==
  /\ call.fn = "extractListingUrls"
  /\ call.at = "anchors"
  /\ call' = [ForEachAddUrl(call, call.anchors, 1) EXCEPT !.at = "returned"]
  /\ UNCHANGED <<jobs, objs, jobVars>>

NextDiscovery ==
  \/ DiscoverPageData
  \/ DiscoverScrolled
  \/ DiscoverAnchors

SpecDiscovery == InitDiscovery /\ [][NextDiscovery]_vars

\* ------------------------------------------------------- next page URL
\* A search URL is a sequence of pieces: "x" is text without digits, "/" and
\* "?"; "/" a slash; "?" the start of a query string; "1_p", "2_p", ... a
\* run of digits followed by "_p".
PageTok == <<"1_p", "2_p", "3_p", "4_p", "5_p">>
PageToks == {PageTok[n] : n \in DOMAIN PageTok}
UrlPieces == {"x", "/", "?", "1_p", "2_p"}

\* Search URLs of at most MaxUrlLen pieces; the job visits pages 1..LastPage.
MaxUrlLen == 4
LastPage == 3

\* The matches of /\d+_p\// in u: a digits-and-_p piece followed by a slash.
PageSegments(u) ==
  {i \in DOMAIN u : u[i] \in PageToks /\ i < Len(u) /\ u[i + 1] = "/"}

\* searchUrl.replace(/\d+_p\//, ""): the first match is removed   (106)
RemoveFirstPage(u) ==
  IF PageSegments(u) = {} THEN u
  ELSE LET i == CHOOSE k \in PageSegments(u) : \A m \in PageSegments(u) : k <= m
       IN SubSeq(u, 1, i - 1) \o SubSeq(u, i + 2, Len(u))

\* withoutPage.replace(/\/$/, `/${nextPage}_p/`): a final slash is replaced
\* by slash, page segment, slash   (107)
AppendPage(u, nextPage) ==
  IF Len(u) > 0 /\ u[Len(u)] = "/" THEN u \o <<PageTok[nextPage], "/">>
  ELSE u

\* buildNextPageUrl   (104-108)
BuildNextPageUrl(searchUrl, nextPage) ==
  AppendPage(RemoveFirstPage(searchUrl), nextPage)

\* orchestrate navigates to searchUrl for page 1 (79); a search URL starts
\* with its scheme and host.
InitPageUrl ==
  /\ JobIdle
  /\ jobs = NoJobs
  /\ objs = <<>>
  /\ \E u \in SeqsUpTo(UrlPieces, MaxUrlLen) :
       /\ Len(u) > 0
       /\ u[1] = "x"
       /\ call = [fn |-> "buildNextPageUrl", searchUrl |-> u, pageNum |-> 1,
                  address |-> u, previous |-> <<>>]

\* orchestrate: nextUrl = buildNextPageUrl(searchUrl, pageNum + 1); the
\* advance navigates to it; pageNum++   (142-148)
AdvanceAddress ==
  /\ call.fn = "buildNextPageUrl"
  /\ call.pageNum < LastPage
  /\ call' = [call EXCEPT
                !.previous = call.address,
                !.address = BuildNextPageUrl(call.searchUrl, call.pageNum + 1),
                !.pageNum = call.pageNum + 1]
  /\ UNCHANGED <<jobs, objs, jobVars>>

NextPageUrl == AdvanceAddress

SpecPageUrl == InitPageUrl /\ [][NextPageUrl]_vars

\* ------------------------------------------------- one listing worker
\* What the listing page holds: whether it has a parsable __NEXT_DATA__
\* script, whether that holds the property, and which of the address parts
\* of the property are non-empty.
AddressParts == {"streetAddress", "city", "state", "zipcode"}
Payloads ==
  {p \in [script : BOOLEAN, property : BOOLEAN, parts : SUBSET AddressParts] :
     /\ p.property => p.script
     /\ p.parts # {} => p.property}

\* parts.filter(Boolean).join(", ") || null   (75-81)
JoinedAddress(parts) == IF parts = {} THEN "null" ELSE "addr"

\* nextDataResult ? extractFromNextData(nextDataResult) : nothing (239-240);
\* extractFromNextData returns null without the property   (70)
Tier1(p) ==
  IF p.script /\ p.property
  THEN [found |-> TRUE, address |-> JoinedAddress(p.parts)]
  ELSE [found |-> FALSE, address |-> "null"]

\* if (extracted && extracted.address)   (241)
Tier1Returns_Never(x) == FALSE

Tier1Returns(x) == x.found /\ x.address # "null"

\* result.address = addressEl?.textContent?.trim() ?? null   (289)
DomAddresses == {"addr", "null"}

WorkerUrls == {1, 2}

\* scrapeListingPage(url) is called: session = null, createSteelSession()
\* is pending   (218-221)
InitWorker ==
  /\ JobIdle
  /\ jobs = NoJobs
  /\ objs = <<>>
  /\ \E u \in WorkerUrls, p \in Payloads :
       call = [fn |-> "scrapeListingPage", url |-> u, page |-> p,
               at |-> "acquire", session |-> "null", tier1 |-> "pending",
               ops |-> <<>>, out |-> "pending", data |-> NoData]

\* The call leaves its try block: by a raise, or returning data; the
\* finally block calls release when a session was acquired   (416-418)
Leave(c, out, data) ==
  [c EXCEPT !.out = out, !.data = data,
            !.at = IF c.session = "null" THEN "settled" ELSE "release",
            !.session = IF c.session = "null" THEN "null" ELSE "released"]

\* await createSteelSession() resumes; page.goto is called   (221-225)
WkAcquire ==
  /\ call.fn = "scrapeListingPage"
  /\ call.at = "acquire"
  /\ \E ok \in BOOLEAN :
       call' = IF ok THEN [call EXCEPT !.session = "held", !.at = "goto"]
               ELSE Leave(call, "raised", NoData)
  /\ UNCHANGED <<jobs, objs, jobVars>>

\* await page.goto and the settle delay end; the payload is read   (225-237)
WkGoto ==
  /\ call.fn = "scrapeListingPage"
  /\ call.at = "goto"
  /\ \E ok \in BOOLEAN :
       call' = IF ok THEN [call EXCEPT !.at = "nextData"]
               ELSE Leave(call, "raised", NoData)
  /\ UNCHANGED <<jobs, objs, jobVars>>

\* The payload arrives: Tier 1 (239-246), then either the return of its
\* record or the start of Tier 2 with the scroll script   (249-258)
WkNextData ==
  /\ call.fn = "scrapeListingPage"
  /\ call.at = "nextData"
  /\ \E ok \in BOOLEAN :
       call' =
         IF ~ok THEN Leave(call, "raised", NoData)
         ELSE LET x == Tier1(call.page)
                  c == [call EXCEPT !.tier1 = IF x.found THEN x.address
                                             ELSE "nothing"]
              IN IF Tier1Returns(x)
                 THEN Leave(c, "returned", Linked(x.address, call.url))
                 ELSE [c EXCEPT !.at = "scroll", !.ops = Append(@, "scroll")]
  /\ UNCHANGED <<jobs, objs, jobVars>>

\* The scroll script and the wait end; the buttons are looked up  (252-262)
WkScroll ==
  /\ call.fn = "scrapeListingPage"
  /\ call.at = "scroll"
  /\ \E ok \in BOOLEAN :
       call' = IF ok THEN [call EXCEPT !.at = "buttons"]
               ELSE Leave(call, "raised", NoData)
  /\ UNCHANGED <<jobs, objs, jobVars>>

\* The disclosure buttons were clicked, or none matched, or the lookup
\* raised (caught at 277); the DOM extraction is started   (262-281)
WkButtons ==
  /\ call.fn = "scrapeListingPage"
  /\ call.at = "buttons"
  /\ \E clicked \in BOOLEAN :
       call' = [call EXCEPT !.at = "dom",
                  !.ops = IF clicked THEN @ \o <<"click", "evaluate">>
                          ELSE Append(@, "evaluate")]
  /\ UNCHANGED <<jobs, objs, jobVars>>

\* The DOM extraction ends; data.link = url; return data   (281-415)
WkDom ==
  /\ call.fn = "scrapeListingPage"
  /\ call.at = "dom"
  /\ \E ok \in BOOLEAN :
       IF ok
       THEN \E a \in DomAddresses :
              call' = Leave(call, "returned", Linked(a, call.url))
       ELSE call' = Leave(call, "raised", NoData)
  /\ UNCHANGED <<jobs, objs, jobVars>>

\* await releaseSteelSession(session) resumes; the call settles   (417)
WkReleased ==
  /\ call.fn = "scrapeListingPage"
  /\ call.at = "release"
  /\ call' = [call EXCEPT !.at = "settled"]
  /\ UNCHANGED <<jobs, objs, jobVars>>

NextWorker ==
  \/ WkAcquire
  \/ WkGoto
  \/ WkNextData
  \/ WkScroll
  \/ WkButtons
  \/ WkDom
  \/ WkReleased

SpecWorker == InitWorker /\ [][NextWorker]_vars

\* --------------------------------------------------- Tier 1: fact fields
\* extractFromNextData on a property, for three of the record's fact_
\* fields.  A source value is "null" (absent), "" (an empty string, or an
\* empty array, which joins to ""), "None", "No Data", or a text that names
\* its source; a field of the record not yet assigned is "unset".
FactFields == {"bedrooms", "lot_size", "appliances"}
NoFacts == [f \in FactFields |-> "unset"]

\* factLabel.toLowerCase().replace(/[\s/]+/g, "_").replace(/[^a-z0-9_]/g, "")
\* on the labels the page uses for these fields   (175)
GlanceLabels == {"Bedrooms", "Lot size", "Appliances"}
Slug(label) ==
  CASE label = "Bedrooms" -> "bedrooms"
    [] label = "Lot size" -> "lot_size"
    [] label = "Appliances" -> "appliances"

\* At most MaxGlance at-a-glance facts.
MaxGlance == 2

Properties ==
  [bedrooms : {"null", "", "top"},
   lotSize : {"null", "top"},
   lotArea : {"null", "area"},
   resoBedrooms : {"null", "", "None", "reso"},
   resoAppliances : {"null", "", "reso"},
   atAGlance : SeqsUpTo([factLabel : GlanceLabels,
                         factValue : {"No Data", "glance"}], MaxGlance)]

\* The sources in the order extractFromNextData reads them (107-167); the
\* at-a-glance facts follow, in the order of the array (170-180).
Writers == <<"bedrooms", "lotSize", "lotArea", "resoBedrooms", "resoAppliances">>

\* !result[`fact_${key}`]   (161, 176)
IsFalsy_Always(v) == TRUE

IsFalsy(v) == v \in {"unset", ""}

\* if (property.bedrooms != null) ...; if (property.lotSize != null) ...;
\* if (lotAreaValue != null && lotAreaUnits != null) ...   (107-113)
TopLevel(res, prop, w) ==
  CASE w = "bedrooms" ->
         IF prop.bedrooms # "null" THEN [res EXCEPT !.bedrooms = prop.bedrooms]
         ELSE res
    [] w = "lotSize" ->
         IF prop.lotSize # "null" THEN [res EXCEPT !.lot_size = prop.lotSize]
         ELSE res
    [] w = "lotArea" ->
         IF prop.lotArea # "null" THEN [res EXCEPT !.lot_size = prop.lotArea]
         ELSE res

\* The body of the factMappings loop for one entry   (158-166)
Mapped(res, factKey, val) ==
  IF val # "null" /\ val # "" /\ val # "None" /\ IsFalsy(res[factKey])
  THEN [res EXCEPT ![factKey] = val]
  ELSE res

\* An empty array passes the test at line 160 and joins to ""   (161)
MappedArray(res, factKey, val) ==
  IF val # "null" /\ IsFalsy(res[factKey]) THEN [res EXCEPT ![factKey] = val]
  ELSE res

\* The body of the at-a-glance loop for one fact   (173-179)
Glance(res, fact) ==
  IF fact.factValue # "No Data" /\ IsFalsy(res[Slug(fact.factLabel)])
  THEN [res EXCEPT ![Slug(fact.factLabel)] = fact.factValue]
  ELSE res

\* extractFromNextData found the property; result = {}   (70-72)
InitTier1 ==
  /\ JobIdle
  /\ jobs = NoJobs
  /\ objs = <<>>
  /\ \E prop \in Properties :
       call = [fn |-> "extractFromNextData", property |-> prop, at |-> 1,
               result |-> NoFacts]

WriteTopLevel ==
  /\ call.fn = "extractFromNextData"
  /\ call.at <= Len(Writers)
  /\ Writers[call.at] \in {"bedrooms", "lotSize", "lotArea"}
  /\ call' = [call EXCEPT !.at = @ + 1,
                !.result = TopLevel(@, call.property, Writers[call.at])]
  /\ UNCHANGED <<jobs, objs, jobVars>>

WriteMapped ==
  /\ call.fn = "extractFromNextData"
  /\ call.at <= Len(Writers)
  /\ \/ /\ Writers[call.at] = "resoBedrooms"
        /\ call' = [call EXCEPT !.at = @ + 1,
                      !.result = Mapped(@, "bedrooms",
                                        call.property.resoBedrooms)]
     \/ /\ Writers[call.at] = "resoAppliances"
        /\ call' = [call EXCEPT !.at = @ + 1,
                      !.result = MappedArray(@, "appliances",
                                             call.property.resoAppliances)]
  /\ UNCHANGED <<jobs, objs, jobVars>>

WriteGlance ==
  /\ call.fn = "extractFromNextData"
  /\ call.at > Len(Writers)
  /\ call.at - Len(Writers) <= Len(call.property.atAGlance)
  /\ call' = [call EXCEPT !.at = @ + 1,
                !.result = Glance(@, call.property.atAGlance[
                                       call.at - Len(Writers)])]
  /\ UNCHANGED <<jobs, objs, jobVars>>

NextTier1 ==
  \/ WriteTopLevel
  \/ WriteMapped
  \/ WriteGlance

SpecTier1 == InitTier1 /\ [][NextTier1]_vars

\* --------------------------------------------- Tier 1: estimated range
\* property.zestimate and the two percentages, Null when the key is absent.
\* The values are integers for which the products below are not halfway
\* between two integers, so rounding in floating point and here agree.
Null == -1
Zestimates == {Null, 0, 1000, 123456, 500000, 999999}
Percents == {Null, 0, 3, 5}

\* Math.round of the non-negative quotient num / den   (98-99)
Round_Down(num, den) == num \div den

Round(num, den) == (2 * num + den) \div (2 * den)

\* n.toLocaleString(): the digits of n in groups of three, the first group
\* first; every group after the first is printed with three digits (100)
RECURSIVE Grouped(_)
Grouped(n) ==
  IF n < 1000 THEN <<n>> ELSE Append(Grouped(n \div 1000), n % 1000)

\* result.estimated_sales_range = null   (102)
NoRange == <<>>

\* `$${low.toLocaleString()} - $${high.toLocaleString()}`: the two grouped
\* numbers of the text   (94-103)
EstimatedSalesRange(zestimateVal, zestimateLow, zestimateHigh) ==
  IF zestimateVal # Null /\ zestimateVal # 0
     /\ zestimateLow # Null /\ zestimateHigh # Null
  THEN LET low == Round(zestimateVal * (100 - zestimateLow), 100)
           high == Round(zestimateVal * (100 + zestimateHigh), 100)
       IN <<Grouped(low), Grouped(high)>>
  ELSE NoRange

InitRange ==
  /\ JobIdle
  /\ jobs = NoJobs
  /\ objs = <<>>
  /\ \E z \in Zestimates, lo \in Percents, hi \in Percents :
       call = [fn |-> "estimated_sales_range", at |-> "called",
               zestimate |-> z, zestimateLowPercent |-> lo,
               zestimateHighPercent |-> hi, range |-> NoRange]

DeriveRange ==
  /\ call.fn = "estimated_sales_range"
  /\ call.at = "called"
  /\ call' = [call EXCEPT !.at = "done",
                !.range = EstimatedSalesRange(call.zestimate,
                                              call.zestimateLowPercent,
                                              call.zestimateHighPercent)]
  /\ UNCHANGED <<jobs, objs, jobVars>>

NextRange == DeriveRange

SpecRange == InitRange /\ [][NextRange]_vars

\* ------------------------------------------------- the job of a search URL
\* orchestrate(job, searchUrl) with the address of each results page built
\* by buildNextPageUrl: what a discovery finds is what the site shows at the
\* address loaded, whatever the page counter says.
SearchUrls == {u \in SeqsUpTo(UrlPieces, MaxUrlLen) : Len(u) > 0 /\ u[1] = "x"}

\* page.goto(searchUrl) for page 1 (79), goToNextPage(page, nextPageUrl) with
\* nextPageUrl = buildNextPageUrl(searchUrl, pageNum + 1) after it (142-146)
AddressOf(searchUrl, p) ==
  IF p = 1 THEN searchUrl ELSE BuildNextPageUrl(searchUrl, p)

\* The page of the site an address shows: the one its page segment names,
\* the first page when it has none.
SitePage(address) ==
  IF PageSegments(address) = {} THEN 1
  ELSE LET i == CHOOSE k \in PageSegments(address) :
                  \A m \in PageSegments(address) : k <= m
       IN CHOOSE n \in DOMAIN PageTok : PageTok[n] = address[i]

\* The sessions of the provider are left out of this specification: sess
\* stays empty and mainSession unset, so a job that never ends has finitely
\* many states.
InitPaging ==
  /\ status = "running"
  /\ pc = "create"
  /\ globalCount = 0
  /\ rows = <<>>
  /\ scraped = 0
  /\ mainSession = NoSession
  /\ pageNum = 1
  /\ aborted = FALSE
  /\ stop = ""
  /\ sess = <<>>
  /\ batch = IdleBatch
  /\ adv = NoAdvance
  /\ jobs = NoJobs
  /\ objs = <<>>
  /\ \E u \in SearchUrls : call = [fn |-> "orchestrate", searchUrl |-> u]

\* mainSession = await createSteelSession() resumes   (76-79)
PagingCreateMain ==
  /\ pc = "create"
  /\ \E ok \in BOOLEAN :
       IF ok THEN pc' = "goto" /\ UNCHANGED <<status, stop>>
       ELSE status' = "error" /\ stop' = "acquire" /\ pc' = "done"
  /\ UNCHANGED <<globalCount, rows, scraped, mainSession, sess, pageNum,
                 aborted, batch, adv>>

\* await scrapeListingsBatch(toScrape, ...) resumes with one result for each
\* URL, successful or not, and orchestrate consumes them   (103-138)
PagingResults(urls, ok) ==
  [k \in DOMAIN urls |->
     IF ok[k]
     THEN [url |-> urls[k], success |-> TRUE, data |-> Linked("addr", urls[k]),
           error |-> ""]
     ELSE FailureResult(urls[k], "raise")]

PagingBatchReturns ==
  /\ pc = "batch"
  /\ \E ok \in [DOMAIN batch.urls -> BOOLEAN] :
       LET c == Consume(PagingResults(batch.urls, ok), 1, globalCount, rows)
       IN /\ globalCount' = c.count
          /\ rows' = c.rows
          /\ scraped' = IF c.count > globalCount THEN c.count ELSE scraped
          /\ IF c.count >= MAX_LISTINGS
             THEN status' = "completed" /\ stop' = "cap" /\ pc' = "done"
             ELSE pc' = "release" /\ UNCHANGED <<status, stop>>
  /\ batch' = IdleBatch
  /\ UNCHANGED <<mainSession, sess, pageNum, aborted, adv>>

\* mainSession = await createSteelSession() resumes; goToNextPage starts
\* with page.goto(targetUrl)   (144-146, 120-122)
PagingCreateNext ==
  /\ pc = "create2"
  /\ \E ok \in BOOLEAN :
       IF ok
       THEN /\ pc' = "advGoto"
            /\ adv' = [NoAdvance EXCEPT !.gotos = 1, !.ret = "pending"]
            /\ UNCHANGED <<status, stop>>
       ELSE /\ status' = "error" /\ stop' = "acquire" /\ pc' = "done"
            /\ adv' = adv
  /\ UNCHANGED <<globalCount, rows, scraped, mainSession, sess, pageNum,
                 aborted, batch>>

\* No caller cancels the job.
NextPaging ==
  \/ /\ PagingCreateMain
     /\ UNCHANGED auxVars
  \/ /\ GotoFirst
     /\ UNCHANGED auxVars
  \/ /\ ExtractAt(SitePage(AddressOf(call.searchUrl, pageNum)))
     /\ UNCHANGED auxVars
  \/ /\ PagingBatchReturns
     /\ UNCHANGED auxVars
  \/ /\ ReleaseDone
     /\ UNCHANGED auxVars
  \/ /\ PagingCreateNext
     /\ UNCHANGED auxVars
  \/ /\ AdvGoto
     /\ UNCHANGED auxVars
  \/ /\ AdvExtractAt(SitePage(AddressOf(call.searchUrl, pageNum + 1)))
     /\ UNCHANGED auxVars
  \/ /\ AdvTitle
     /\ UNCHANGED auxVars
  \/ /\ AdvReload
     /\ UNCHANGED auxVars

\* Every external call that is pending returns or raises in the end, and so
\* the event loop resumes whatever awaits it.
PagingFairness == WF_vars(NextPaging)

SpecPaging == InitPaging /\ [][NextPaging]_vars /\ PagingFairness

\* ================================================================ claims
Workers == DOMAIN batch.w

Invoked == {k \in Workers : batch.w[k].invoked}

InFlightWorkers == {k \in Workers : batch.w[k].st \in {"acquire", "scrape", "release"}}

Successes == {j \in 1..Len(batch.all) : batch.all[j].success}

MidScrapeSkips ==
  {j \in 1..Len(batch.all) :
     batch.all[j].error = "Skipped - limit reached mid-scrape"}

CapSkips ==
  {j \in 1..Len(batch.all) :
     /\ ~batch.all[j].success
     /\ batch.all[j].error \in {"Skipped - limit reached",
                                "Skipped - limit reached mid-scrape"}}

\* C1: the number of records handed to schema.addRow never exceeds
\* MAX_LISTINGS, whatever the interleaving and the workers' outcomes.
C1_RowsWithinCap == Len(rows) <= MAX_LISTINGS

\* C1 witness: the cap was reached by records of more than one results page.
C1_Witness ==
  /\ Len(rows) = MAX_LISTINGS
  /\ stop = "cap"
  /\ pageNum > 1

\* C2: no session is ever released twice, and once the job is terminal and
\* every worker has settled, every acquired session has been released.
C2_SessionsReleasedOnce ==
  /\ \A s \in DOMAIN sess : sess[s] # "twice"
  /\ (status # "running" /\ InFlightWorkers = {})
       => \A s \in DOMAIN sess : sess[s] = "released"

\* C2 witness: a terminal job that went through a failed acquire of the next
\* navigation session after a batch with a worker that held a session and
\* failed (three sessions acquired, one record).
C2_Witness ==
  /\ pc = "done"
  /\ status = "error"
  /\ stop = "acquire"
  /\ Len(sess) >= 3
  /\ Len(rows) = 1

\* C3: the status starts as running and changes only from running to
\* completed or to error; a terminal status never changes again.
C3_StatusTerminal ==
  /\ status = "running"
  /\ [][status' # status =>
          (status = "running" /\ status' \in {"completed", "error"})]_vars

\* C3 witness: orchestrate has settled after the status became completed.
C3_Witness == pc = "done" /\ status = "completed" /\ Len(sess) >= 2

NoStartAtLimit ==
  \A k \in Invoked :
    batch.w[k].atCount < batch.maxCount /\ ~batch.w[k].atAborted

\* When the call returns, every worker that was invoked has run to
\* completion: it is settled, its session is released, its entry collected.
InvokedRunToCompletion ==
  batch.returned =>
    \A k \in Invoked :
      /\ batch.w[k].st = "settled"
      /\ k <= Len(batch.all)
      /\ batch.w[k].sid # NoSession => sess[batch.w[k].sid] = "released"

C6_ResultOrder ==
  \A j \in 1..Len(batch.all) :
    /\ j <= Len(batch.urls)
    /\ batch.all[j].url = batch.urls[j]
    /\ batch.all[j] = batch.w[j].res

\* C6 witness: two chunks were collected, and in the first the second worker
\* completed (and was accepted) before the first one (skipped on completion).
C6_Witness ==
  /\ batch.returned
  /\ Len(batch.all) >= 2
  /\ batch.all[1].error = "Skipped - limit reached mid-scrape"
  /\ batch.all[2].success

ChunkOf(k) == (k - 1) \div BATCH_CONCURRENCY

HeldSessions == {s \in DOMAIN sess : sess[s] = "held"}

\* C7: no worker of a later chunk has started while a worker of an earlier
\* chunk is unsettled; at most BATCH_CONCURRENCY workers, and worker
\* sessions, are in flight.
C7_ChunksSequential ==
  /\ \A j, k \in Workers :
       (ChunkOf(j) < ChunkOf(k) /\ batch.w[k].st # "idle")
         => batch.w[j].st = "settled"
  /\ Cardinality(InFlightWorkers) <= BATCH_CONCURRENCY
  /\ Cardinality(HeldSessions \ {mainSession}) <= BATCH_CONCURRENCY

\* C7 witness: a worker of the second chunk is in flight.
C7_Witness ==
  \E k \in Workers :
    /\ ChunkOf(k) = 1
    /\ batch.w[k].st = "scrape"
    /\ \E j \in Workers : ChunkOf(j) = 0 /\ batch.w[j].out = "NavigationTimeout"

Failed == {k \in Workers : batch.w[k].st = "settled"
                           /\ batch.w[k].out \notin {"", "ok"}}

\* C8: a failed worker yields its URL's unsuccessful result carrying the
\* error message; every invoked worker's result is collected; failures stop
\* neither later chunks nor later pages; only navigation-session failures
\* set the status to error.
C8_FailureIsolated ==
  /\ [](/\ \A k \in Failed :
             batch.w[k].res = [url |-> batch.urls[k], success |-> FALSE,
                               data |-> NoData, error |-> batch.w[k].out]
        /\ batch.returned =>
             /\ \A k \in Invoked :
                  k <= Len(batch.all) /\ batch.all[k] = batch.w[k].res
             /\ (~aborted /\ batch.completed < batch.maxCount)
                  => Len(batch.all) = Len(batch.urls)
        /\ status = "error" => stop \in {"acquire", "goto", "extract"})
  /\ [][(~batch.returned /\ batch'.returned /\ globalCount' < MAX_LISTINGS)
          => (pc' = "release" /\ status' = "running")]_vars

\* C8 witness: the first worker failed at acquire, its sibling and the next
\* chunk were scraped, and the job goes on to the next results page.
C8_Witness ==
  /\ Len(batch.all) = 3
  /\ batch.all[1].error = "ProvisioningError"
  /\ batch.all[2].success
  /\ batch.all[3].error = "NavigationTimeout"
  /\ pc = "release"
  /\ status = "running"

\* C9: when goToNextPage returns false the job ends completed, never error,
\* and the accumulator and the count are what they were before the advance.
C9_FailedAdvanceCompletes ==
  /\ [](stop = "noNext" => (status = "completed" /\ adv.ret = "false"
                            /\ Len(rows) = globalCount))
  /\ [][(adv.ret = "pending" /\ adv'.ret = "false")
          => (status' = "completed" /\ stop' = "noNext" /\ rows' = rows
              /\ globalCount' = globalCount)]_vars
  /\ [][stop = "noNext"
          => (status' = status /\ rows' = rows /\ globalCount' = globalCount)]_vars

\* C9 witness: records were accumulated, then the next page had no
\* references on both discoveries.
C9_Witness ==
  /\ pc = "done"
  /\ stop = "noNext"
  /\ adv.disc = <<0, 0>>
  /\ Len(rows) >= 1

\* C10: goToNextPage navigates once; it returns true as soon as a discovery
\* finds a reference, the first or the one after the single reload; without
\* a raise it returns false only after two zero-reference discoveries and one
\* reload; it reloads at most once; a raise inside it makes it return false
\* and never reaches orchestrate.
C10_OneReloadRetry ==
  adv.ret # "none" =>
    /\ adv.gotos = 1
    /\ adv.reloads <= 1
    /\ Len(adv.disc) <= adv.reloads + 1
    /\ \A j \in 1..Len(adv.disc) : j < Len(adv.disc) => adv.disc[j] = 0
    /\ adv.ret = "true" =>
         /\ ~adv.raised
         /\ adv.disc # <<>>
         /\ adv.disc[Len(adv.disc)] > 0
         /\ adv.reloads = Len(adv.disc) - 1
    /\ (adv.ret = "false" /\ ~adv.raised) =>
         (adv.disc = <<0, 0>> /\ adv.reloads = 1)
    /\ (adv.ret = "pending" /\ adv.disc # <<>>) => adv.disc[Len(adv.disc)] = 0
    /\ adv.raised => (adv.ret = "false" /\ stop = "noNext" /\ status = "completed")

\* C10 witness: zero references on the first load, some after the reload.
C10_Witness ==
  /\ adv.ret = "true"
  /\ Len(adv.disc) = 2
  /\ adv.disc[1] = 0
  /\ adv.reloads = 1

\* C13 as claimed: every record handed to the writer and every result marked
\* successful carries an address and the URL it was scraped from as its link.
C13_AsClaimed ==
  /\ \A j \in 1..Len(rows) : rows[j].address # "null" /\ rows[j].link # 0
  /\ \A j \in 1..Len(batch.all) :
       batch.all[j].success =>
         /\ batch.all[j].data.address # "null"
         /\ batch.all[j].data.link = batch.all[j].url
\* C14 as claimed: no listing is in the accumulator twice, and the counter
\* is the number of accepted records.
C14_AsClaimed ==
  /\ \A i, j \in 1..Len(rows) : i # j => rows[i].link # rows[j].link
  /\ globalCount = Len(rows)
\* C16 as claimed: the status is set to error only by a failure outside the
\* workers, the discovery of references and the advance to a later page,
\* that is by a failed acquire of a navigation session or a failed first
\* navigation.
C16_AsClaimed == status = "error" => stop \in {"acquire", "goto"}
WorkerSessions == {batch.w[k].sid : k \in Workers} \ {NoSession}
NavHeld == HeldSessions \ WorkerSessions
PageOpPending ==
  pc \in {"goto", "extract", "advGoto", "advExtract", "advTitle", "advReload"}
\* C20: while a worker is in flight orchestrate is suspended at the batch
\* call and no step that leaves a worker in flight touches the navigation
\* session it holds; at most one
\* navigation session is held, and none while the acquire of one is
\* pending; a page operation of orchestrate is always on the session it
\* currently holds, which is not released.
C20_NavigationSerialized ==
  /\ [](/\ InFlightWorkers # {} => pc = "batch"
        /\ Cardinality(NavHeld) <= 1
        /\ NavHeld \subseteq {mainSession}
        /\ pc \in {"create", "create2"} => NavHeld = {}
        /\ (PageOpPending \/ (pc = "batch" /\ mainSession # NoSession))
             => (mainSession \in DOMAIN sess /\ sess[mainSession] = "held"))
  /\ [][(InFlightWorkers # {} /\ InFlightWorkers' # {})
          => (/\ mainSession' = mainSession
              /\ mainSession # NoSession
                   => sess'[mainSession] = sess[mainSession])]_vars
\* C20 witness: on the second results page, with the first navigation
\* session released and the second one held, a worker is in flight.
C20_Witness ==
  /\ pc = "batch"
  /\ pageNum = 2
  /\ mainSession > 1
  /\ sess[1] = "released"
  /\ sess[mainSession] = "held"
  /\ \E k \in Workers : batch.w[k].st = "release"
StartedAs(id) == {j \in DOMAIN objs : objs[j].id = id}
LastStartedAs(id) ==
  CHOOSE j \in StartedAs(id) : \A i \in StartedAs(id) : i <= j
\* C15 as claimed: getJob of a started job's id returns that same job, in
\* every state from the return of its startScrapeJob call on; getJob of an
\* id never started returns not-found.
C15_AsClaimed ==
  /\ \A j \in DOMAIN objs : GetJob(jobs, objs[j].id) = j
  /\ \A id \in JobIds : StartedAs(id) = {} => GetJob(jobs, id) = NotFound
\* C15 amended: startScrapeJob registers the new job and returns it with
\* status running, its orchestrate suspended at its first await, and leaves
\* every other job as it was; getJob(id) is the job most recently started
\* under id (that same job unless a later start reused the id), with the
\* status that job has now; getJob of an id never started is not-found.
C15_Registry ==
  /\ [](\A id \in JobIds :
          GetJob(jobs, id) = IF StartedAs(id) = {} THEN NotFound
                             ELSE LastStartedAs(id))
  /\ [][Len(objs') # Len(objs) =>
          /\ Len(objs') = Len(objs) + 1
          /\ objs'[Len(objs')].status = "running"
          /\ objs'[Len(objs')].at = "create"
          /\ GetJob(jobs', objs'[Len(objs')].id) = Len(objs')
          /\ \A j \in DOMAIN objs : objs'[j] = objs[j]]_vars
\* C15 witness: three jobs were started, the third under the id of the
\* first, which is still running; the second has completed and is what
\* getJob returns for its id.
C15_Witness ==
  /\ Len(objs) = 3
  /\ objs[1].id = objs[3].id
  /\ objs[1].status = "running"
  /\ objs[2].status = "completed"
  /\ GetJob(jobs, objs[2].id) = 2
  /\ GetJob(jobs, objs[1].id) = 3
\* The references of a snapshot in their order of discovery: those of the
\* structured data, then the anchors.
Discovered == call.jsonUrls \o call.anchors
FirstDiscovery(u) ==
  CHOOSE n \in DOMAIN Discovered :
    /\ DedupKey(StripQuery(Discovered[n])) = DedupKey(u)
    /\ \A m \in 1..(n - 1) : DedupKey(StripQuery(Discovered[m])) # DedupKey(u)
\* C11 as claimed: the returned list has no two references with the same
\* dedup key (zpid when present, else the URL); each is the first discovered
\* URL of its key, and they are in the order of their first discovery,
\* structured data before anchors.
C11_AsClaimed ==
  (call.fn = "extractListingUrls" /\ call.at = "returned") =>
    /\ \A i, j \in DOMAIN call.allUrls :
         i # j => DedupKey(call.allUrls[i]) # DedupKey(call.allUrls[j])
    /\ \A i \in DOMAIN call.allUrls :
         call.allUrls[i] = StripQuery(Discovered[FirstDiscovery(call.allUrls[i])])
    /\ \A i, j \in DOMAIN call.allUrls :
         i < j => FirstDiscovery(call.allUrls[i]) <= FirstDiscovery(call.allUrls[j])
\* C12 as claimed: the address built for page n carries the segment n_p/ and
\* no other page-number segment; https://x/search/1_p/ with n = 2 gives
\* https://x/search/2_p/; the address of a page differs from the address of
\* the page before it.
C12_AsClaimed ==
  (call.fn = "buildNextPageUrl" /\ call.pageNum > 1) =>
    /\ PageSegments(call.address) # {}
    /\ \A i \in PageSegments(call.address) :
         call.address[i] = PageTok[call.pageNum]
    /\ Cardinality(PageSegments(call.address)) = 1
    /\ (call.searchUrl = <<"x", "/", "1_p", "/">> /\ call.pageNum = 2)
         => call.address = <<"x", "/", "2_p", "/">>
    /\ call.address # call.previous
\* C18 as claimed: once a fact field has been set, no source read later
\* changes its value.
C18_AsClaimed ==
  [][call.fn = "extractFromNextData" =>
       \A f \in FactFields :
         call.result[f] # "unset" => call'.result[f] = call.result[f]]_vars
\* C18 amended: a fact field holding a non-empty value is changed by no
\* resoFacts entry and no at-a-glance fact; of the top-level keys only
\* lotAreaValue with lotAreaUnits changes a field already set, replacing
\* the fact_lot_size taken from lotSize.
C18_FirstWriterWins ==
  [][call.fn = "extractFromNextData" =>
       \A f \in FactFields :
         (call.result[f] \notin {"unset", ""}
            /\ call'.result[f] # call.result[f])
           => (/\ f = "lot_size"
               /\ call.at <= Len(Writers)
               /\ Writers[call.at] = "lotArea"
               /\ call'.result[f] = "area")]_vars
\* C18 witness: every source was read; the bedrooms of the top level stand
\* although resoFacts and an at-a-glance fact offered others, and the lot
\* size of lotSize was replaced by the lot area.
C18_Witness ==
  /\ call.fn = "extractFromNextData"
  /\ call.at = Len(Writers) + Len(call.property.atAGlance) + 1
  /\ call.property.resoBedrooms = "reso"
  /\ call.property.lotSize = "top"
  /\ \E n \in DOMAIN call.property.atAGlance :
       /\ call.property.atAGlance[n].factLabel = "Bedrooms"
       /\ call.property.atAGlance[n].factValue = "glance"
  /\ call.result.bedrooms = "top"
  /\ call.result.lot_size = "area"
RECURSIVE Ungrouped(_)
Ungrouped(g) ==
  IF Len(g) = 0 THEN 0
  ELSE 1000 * Ungrouped(SubSeq(g, 1, Len(g) - 1)) + g[Len(g)]
WellGrouped(g) ==
  /\ Len(g) >= 1
  /\ \A i \in DOMAIN g : g[i] \in 0..999
  /\ Len(g) > 1 => g[1] > 0
\* g is the grouped text of the integer nearest to num / 100 (halves up).
RoundedTo(g, num) ==
  /\ WellGrouped(g)
  /\ 100 * Ungrouped(g) - num \in -49..50
RangeDerived == call.fn = "estimated_sales_range" /\ call.at = "done"
\* C19 as claimed: the range is non-null exactly when zestimate and both
\* percentages are present.
C19_AsClaimed ==
  RangeDerived =>
    (call.range # NoRange <=>
       (call.zestimate # Null /\ call.zestimateLowPercent # Null
        /\ call.zestimateHighPercent # Null))
\* C19 amended: the range is non-null exactly when zestimate is present and
\* not 0 and both percentages are present; it is then the thousands-grouped
\* round(zestimate * (1 - low/100)) and round(zestimate * (1 + high/100)):
\* 500000 with 5 and 3 gives $475,000 - $515,000.
C19_Range ==
  RangeDerived =>
    /\ call.range # NoRange <=>
         (call.zestimate \notin {Null, 0} /\ call.zestimateLowPercent # Null
          /\ call.zestimateHighPercent # Null)
    /\ call.range # NoRange =>
         /\ Len(call.range) = 2
         /\ RoundedTo(call.range[1],
                      call.zestimate * (100 - call.zestimateLowPercent))
         /\ RoundedTo(call.range[2],
                      call.zestimate * (100 + call.zestimateHighPercent))
    /\ (call.zestimate = 500000 /\ call.zestimateLowPercent = 5
        /\ call.zestimateHighPercent = 3)
         => call.range = << <<475, 0>>, <<515, 0>> >>
\* C19 witness: 123456 with 5 and 3 gives $117,283 - $127,160, the upper
\* end rounded up from 127159.68.
C19_Witness ==
  /\ RangeDerived
  /\ call.zestimate = 123456
  /\ call.range = << <<117, 283>>, <<127, 160>> >>
\* C17: when the payload holds the property with an address, Tier 1 yields
\* the record and the call returns it with link = url, the release of the
\* session being called in the same step, with no scroll, click or DOM
\* evaluation; such interactions happen only after Tier 1 yielded nothing
\* or a record without address.
C17_Tier1ShortCircuit ==
  call.fn = "scrapeListingPage" =>
    /\ (call.tier1 # "pending" /\ call.page.property /\ call.page.parts # {})
         => call.tier1 = "addr"
    /\ call.tier1 = "addr" =>
         /\ call.ops = <<>>
         /\ call.at \in {"release", "settled"}
         /\ call.session = "released"
         /\ call.out = "returned"
         /\ call.data = [link |-> call.url, address |-> "addr"]
    /\ call.ops # <<>> => call.tier1 \in {"nothing", "null"}
\* C17 witness: a call that returned the Tier 1 record has settled.
C17_Witness ==
  /\ call.fn = "scrapeListingPage"
  /\ call.at = "settled"
  /\ call.tier1 = "addr"
  /\ call.out = "returned"
  /\ call.data.link = call.url
Reported == {k \in Workers : batch.w[k].res.success}
\* C21: the shared counter of a batch call never exceeds the cap the call
\* was given; it is the count at the call plus the number of workers that
\* reported success, so at most cap minus that count report success.
C21_CounterWithinCap ==
  /\ batch.completed <= batch.maxCount
  /\ batch.completed = batch.currentCount + Cardinality(Reported)
  /\ Cardinality(Reported) <= batch.maxCount - batch.currentCount
\* C21 witness: workers in flight together all completed with data; those
\* that completed first filled the places left, a later one was skipped.
C21_Witness ==
  \E j, k \in Workers :
    /\ batch.w[j].res.success
    /\ batch.w[k].invoked
    /\ batch.w[k].res.error = "Skipped - limit reached mid-scrape"
    /\ batch.completed = batch.maxCount
    /\ Cardinality(Reported) = batch.maxCount - batch.currentCount
\* C24: wherever orchestrate reads globalCount it is the number of records
\* in the accumulator, and logger.scraped once a record was accepted; it never
\* decreases, and each step that changes it appends as many records, keeping
\* those already there.
C24_CounterIsRecordCount ==
  /\ [](/\ globalCount = Len(rows)
        /\ (globalCount > 0 => scraped = globalCount))
  /\ [][/\ globalCount' >= globalCount
        /\ Len(rows') = Len(rows) + (globalCount' - globalCount)
        /\ SubSeq(rows', 1, Len(rows)) = rows]_vars
\* C24 witness: the loop head on the second page, two records accepted on
\* the first.
C24_Witness ==
  /\ pc = "extract"
  /\ pageNum = 2
  /\ globalCount = 2
  /\ Len(rows) = 2
  /\ scraped = 2
IsSuccess(r) == r.success

SuccessData(all) ==
  LET ok == SelectSeq(all, IsSuccess) IN [j \in 1..Len(ok) |-> ok[j].data]

BatchConsumed == batch' # batch /\ batch'.returned
\* C25: when orchestrate consumes the results of a batch call, the data of
\* every successful result is appended to the accumulator, in order, and
\* globalCount then equals the final value of the call's shared counter.
C25_NoSuccessDiscarded ==
  [][BatchConsumed =>
       /\ batch'.currentCount = globalCount
       /\ Len(batch'.urls) <= MAX_LISTINGS - globalCount
       /\ rows' = rows \o SuccessData(batch'.all)
       /\ globalCount' = batch'.completed]_vars
\* C25 witness: a consumed batch of three results, a failure followed by two
\* successes, both accepted.
C25_Witness ==
  /\ batch.returned
  /\ Len(batch.all) = 3
  /\ ~batch.all[1].success
  /\ batch.all[2].success
  /\ batch.all[3].success
  /\ globalCount = batch.completed
  /\ Len(rows) = batch.currentCount + 2
\* C22: once the cancellation signal is set, orchestrate calls
\* createSteelSession for a fresh navigation session no more and starts no
\* load of another results page.
C22_AsClaimed ==
  [][aborted =>
       /\ (pc' = "create2" => pc = "create2")
       /\ (pc' = "advGoto" => pc = "advGoto")]_vars
\* C23: every job leaves status "running" in the end, whatever its search
\* URL and however its workers fail, as long as every pending call returns.
C23_AsClaimed == <>(status # "running")
====
